---- MODULE Spec2Model ----
(***************************************************************************)
(* Model of plugin/claude-code/scripts/subagent_stop.py, the SubagentStop  *)
(* hook that mines an agent transcript for a "learnings" section and       *)
(* POSTs every learning item to the local capture service.                 *)
(*                                                                         *)
(* Representation of text.  A Python str is a sequence of tokens.  Each    *)
(* of the characters the regular expressions of the script look at         *)
(*     the whitespace characters, the digits,                              *)
(*     #  .  )  -  *  [  :  /  backquote                                   *)
(* is a token of its own; every other token is a word, a longest run of    *)
(* characters that holds none of these.  The characters are those a        *)
(* string of this module can hold: the characters of ASCII but the         *)
(* backquote, which is held by name (Backquote), and the characters of     *)
(* the Basic Multilingual Plane whose code ends in a byte of 0x80 or more. *)
(* Of Python's whitespace these are the ten of ASCII and U+0085, U+00A0    *)
(* and U+1680; of Python's digits, the ten of ASCII and the 180 of         *)
(* UnicodeDigits; none of the characters re.IGNORECASE folds onto a letter *)
(* of ASCII from outside ASCII (U+0130, U+0131, U+017F, U+212A) is among   *)
(* them.  The two-character sequence backslash-n, which the reconstructor  *)
(* unescapes, is the token "\\n".                                          *)
(* The str a token sequence stands for is the concatenation of its tokens, *)
(* and its length is the sum of the lengths of its tokens.  Positions are  *)
(* 1-based; position p of a text of n tokens, 1 <= p <= n+1, is the place  *)
(* before token p, and n+1 is the end of the text.                         *)
(*                                                                         *)
(* Representation of JSON.  A parsed JSON value is a record tagged by t:   *)
(* null, bool (b), num (n), str (s: token sequence), list (items), obj     *)
(* (f: a function from key to value).                                      *)
(***************************************************************************)
EXTENDS Integers, Sequences, FiniteSets, TLC

VARIABLES
    \* ---- one run of main() ----
    pc,               \* position of main() in its sequence of steps
    log_dir,          \* environment: can LOG_DIR / LOG_FILE be created
    raw_input,        \* environment: what sys.stdin.read() returns
    health,           \* environment: outcome of GET /health
    files,            \* environment: path -> lines of the JSONL file
    data,             \* main: the parsed envelope
    agent_transcript, \* main: data.get("agent_transcript_path", "")
    parent_transcript,\* main: data.get("transcript_path", "")
    project,          \* main: Path(cwd).name or "unknown"
    session_id,       \* main: data.get("session_id", "")
    agent_name,       \* main: result of detect_agent_name
    learnings,        \* main: result of extract_learnings
    idx,              \* main: number of learnings the for loop has handled
    saved_count,      \* main: saved_count
    http,             \* history: the HTTP requests issued, in order
    responses,        \* history: the capture service's answer to each POST
    reads,            \* history: the transcript paths opened for reading
    events,           \* history: the preconditions passed, in order
    exit_status,      \* process exit status, -1 while running
    \* ---- the pure functions, exercised on their own ----
    u_pc,             \* "in" before the function is applied, "out" after
    u_lines,          \* input of the JSONL readers: the lines of the file
    u_path,           \* input: state of the path handed to the function
    u_text,           \* reconstructed transcript text
    u_out             \* the function's result

mainVars == <<pc, log_dir, raw_input, health, files, data, agent_transcript,
              parent_transcript, project, session_id, agent_name, learnings,
              idx, saved_count, http, responses, reads, events, exit_status>>
unitVars == <<u_pc, u_lines, u_path, u_text, u_out>>
vars == <<mainVars, unitVars>>

\* Minimum length for a learning to be valid.
MIN_LEARNING_LENGTH == 20

(***************************************************************************)
(* Characters and text                                                     *)
(***************************************************************************)

\* The five control characters that are whitespace and have no escape in
\* a string, written as they are: vertical tab (0x0B) and the four
\* separators FS, GS, RS, US (0x1C to 0x1F).
ControlSpaces == {"", "", "", "", ""}

\* The whitespace characters outside ASCII, written as they are: next line
\* (U+0085), no-break space (U+00A0) and ogham space mark (U+1680).
UnicodeSpaces == {"", " ", " "}

\* Python's \s, str.split() and str.strip() whitespace (a str pattern
\* without re.ASCII matches the whitespace of Unicode).
Spaces == {" ", "\t", "\n", "\r", "\f"} \cup ControlSpaces \cup UnicodeSpaces
IsSpace(c) == c \in Spaces

\* The decimal digits outside ASCII (category Nd), written as they are, ten
\* to a script.
UnicodeDigits == {
    "۰", "۱", "۲", "۳", "۴", "۵", "۶", "۷", "۸", "۹",
    "߀", "߁", "߂", "߃", "߄", "߅", "߆", "߇", "߈", "߉",
    "০", "১", "২", "৩", "৪", "৫", "৬", "৭", "৮", "৯",
    "૦", "૧", "૨", "૩", "૪", "૫", "૬", "૭", "૮", "૯",
    "௦", "௧", "௨", "௩", "௪", "௫", "௬", "௭", "௮", "௯",
    "೦", "೧", "೨", "೩", "೪", "೫", "೬", "೭", "೮", "೯",
    "෦", "෧", "෨", "෩", "෪", "෫", "෬", "෭", "෮", "෯",
    "໐", "໑", "໒", "໓", "໔", "໕", "໖", "໗", "໘", "໙",
    "႐", "႑", "႒", "႓", "႔", "႕", "႖", "႗", "႘", "႙",
    "០", "១", "២", "៣", "៤", "៥", "៦", "៧", "៨", "៩",
    "᧐", "᧑", "᧒", "᧓", "᧔", "᧕", "᧖", "᧗", "᧘", "᧙",
    "᪀", "᪁", "᪂", "᪃", "᪄", "᪅", "᪆", "᪇", "᪈", "᪉",
    "᪐", "᪑", "᪒", "᪓", "᪔", "᪕", "᪖", "᪗", "᪘", "᪙",
    "᮰", "᮱", "᮲", "᮳", "᮴", "᮵", "᮶", "᮷", "᮸", "᮹",
    "꣐", "꣑", "꣒", "꣓", "꣔", "꣕", "꣖", "꣗", "꣘", "꣙",
    "꧐", "꧑", "꧒", "꧓", "꧔", "꧕", "꧖", "꧗", "꧘", "꧙",
    "꧰", "꧱", "꧲", "꧳", "꧴", "꧵", "꧶", "꧷", "꧸", "꧹",
    "꯰", "꯱", "꯲", "꯳", "꯴", "꯵", "꯶", "꯷", "꯸", "꯹" }

\* Python's \d (a str pattern without re.ASCII matches every decimal digit
\* of Unicode).
Digits == {"0", "1", "2", "3", "4", "5", "6", "7", "8", "9"} \cup UnicodeDigits
IsDigit(c) == c \in Digits

\* The backquote character; the one token whose name is not its text.
Backquote == "BACKQUOTE"

\* The letters re.IGNORECASE folds, and what it folds each to.
LowerCase ==
    ("A" :> "a") @@ ("B" :> "b") @@ ("C" :> "c") @@ ("D" :> "d") @@ ("E" :> "e")
    @@ ("F" :> "f") @@ ("G" :> "g") @@ ("H" :> "h") @@ ("I" :> "i") @@ ("J" :> "j")
    @@ ("K" :> "k") @@ ("L" :> "l") @@ ("M" :> "m") @@ ("N" :> "n") @@ ("O" :> "o")
    @@ ("P" :> "p") @@ ("Q" :> "q") @@ ("R" :> "r") @@ ("S" :> "s") @@ ("T" :> "t")
    @@ ("U" :> "u") @@ ("V" :> "v") @@ ("W" :> "w") @@ ("X" :> "x") @@ ("Y" :> "y")
    @@ ("Z" :> "z")

\* The lower-case form of a character.
LowerChar(c) == IF c \in DOMAIN LowerCase THEN LowerCase[c] ELSE c

\* re.IGNORECASE on the words of the header pattern: the lower-case form of
\* a word, every spelling of it folded character by character.
RECURSIVE Lower(_)
Lower(w) ==
    IF w = Backquote \/ w = "" THEN w
    ELSE LowerChar(Head(w)) \o Lower(Tail(w))

\* Number of characters of a token.
TokLen(c) == IF c = Backquote THEN 1 ELSE Len(c)

\* len(s) of the str a token sequence stands for.
RECURSIVE StrLen(_)
StrLen(s) == IF s = <<>> THEN 0 ELSE TokLen(Head(s)) + StrLen(Tail(s))

\* The characters of a token, and of the str a token sequence stands for,
\* each a string of length 1 (the backquote as its token).
RECURSIVE CharsOf(_)
CharsOf(w) ==
    IF w = Backquote THEN <<w>>
    ELSE IF w = "" THEN <<>>
    ELSE <<Head(w)>> \o CharsOf(Tail(w))

RECURSIVE Chars(_)
Chars(s) == IF s = <<>> THEN <<>> ELSE CharsOf(Head(s)) \o Chars(Tail(s))

\* text[p-1:] as a token sequence (the text from position p on).
From(text, p) == SubSeq(text, p, Len(text))

\* End of the longest run of whitespace starting at position p (greedy \s*).
RECURSIVE SkipSpace(_, _)
SkipSpace(text, p) ==
    IF p <= Len(text) /\ IsSpace(text[p]) THEN SkipSpace(text, p + 1) ELSE p

\* End of the longest run of digits starting at position p (greedy \d+).
RECURSIVE SkipDigits(_, _)
SkipDigits(text, p) ==
    IF p <= Len(text) /\ IsDigit(text[p]) THEN SkipDigits(text, p + 1) ELSE p

\* End of the longest run of the token c starting at position p.
RECURSIVE SkipChar(_, _, _)
SkipChar(text, p, c) ==
    IF p <= Len(text) /\ text[p] = c THEN SkipChar(text, p + 1, c) ELSE p

\* End of the longest run of tokens other than c starting at p ([^c]+).
RECURSIVE SkipNot(_, _, _)
SkipNot(text, p, c) ==
    IF p <= Len(text) /\ text[p] # c THEN SkipNot(text, p + 1, c) ELSE p

\* ^ under re.MULTILINE: the start of the text or just after a newline.
AtLineStart(text, p) == p = 1 \/ (p - 1 <= Len(text) /\ text[p - 1] = "\n")

\* str.strip() == "": the text holds nothing but whitespace.
IsBlank(text) == \A i \in 1..Len(text) : IsSpace(text[i])

(***************************************************************************)
(* _clean_markdown                                                         *)
(***************************************************************************)

\* re.sub(d{w}([^d]+)d{w}, r"\1", text) for a delimiter token d repeated w
\* times: scanning from position p, every leftmost match is replaced by its
\* inner text and the scan goes on after the match.
RECURSIVE StripPairs(_, _, _, _)
StripPairs(text, p, d, w) ==
    IF p > Len(text) THEN <<>>
    ELSE LET open == SkipChar(text, p, d) - p >= w
             r == SkipNot(text, p + w, d)
             close == /\ open
                      /\ r > p + w
                      /\ r + w - 1 <= Len(text)
                      /\ \A k \in 0..(w - 1) : text[r + k] = d
         IN IF close
            THEN SubSeq(text, p + w, r - 1) \o StripPairs(text, r + w, d, w)
            ELSE <<text[p]>> \o StripPairs(text, p + 1, d, w)

\* " ".join(text.split()): the words of the text, one space between them.
\* A token that follows whitespace starts a new word; the first word gets
\* no space before it.
RECURSIVE JoinSplit(_, _)
JoinSplit(text, p) ==
    IF p > Len(text) THEN <<>>
    ELSE IF IsSpace(text[p]) THEN JoinSplit(text, p + 1)
    ELSE LET sep == IF p > 1 /\ IsSpace(text[p - 1]) /\ SkipSpace(text, 1) < p
                    THEN <<" ">> ELSE <<>>
         IN sep \o <<text[p]>> \o JoinSplit(text, p + 1)

\* Strip basic Markdown formatting and collapse whitespace.
_clean_markdown(text) ==
    LET bold == StripPairs(text, 1, "*", 2)
        code == StripPairs(bold, 1, Backquote, 1)
        ital == StripPairs(code, 1, "*", 1)
    IN JoinSplit(ital, 1)

(***************************************************************************)
(* extract_learnings: the section locator                                  *)
(***************************************************************************)

\* The tail ":?\s*$" of header_pattern from position a: the position where
\* the match ends, or 0.  $ under re.MULTILINE holds at the end of the text
\* and before a newline; \s* is greedy, so the match ends at the end of the
\* text when the whitespace runs to it, and before the last newline of the
\* whitespace otherwise.
HeaderTail(text, a) ==
    LET t == IF a <= Len(text) /\ text[a] = ":" THEN a + 1 ELSE a
        w == SkipSpace(text, t)
        nl == {i \in t..(w - 1) : text[i] = "\n"}
    IN IF w > Len(text) THEN w
       ELSE IF nl = {} THEN 0
       ELSE CHOOSE i \in nl : \A j \in nl : j <= i

\* header_pattern matched at position p:
\*   ^#{2,3}\s+(?:Aprendizajes(?:\s+Clave)?|Key\s+Learnings?|Learnings?):?\s*$
\* The position where the match ends, or 0 when it does not match at p.
HeaderMatchEnd(text, p) ==
    LET h == SkipChar(text, p, "#")
        q == SkipSpace(text, h)
        w == IF q <= Len(text) THEN Lower(text[q]) ELSE ""
        r == SkipSpace(text, q + 1)
        w2 == IF r > q + 1 /\ r <= Len(text) THEN Lower(text[r]) ELSE ""
    IN IF ~(AtLineStart(text, p) /\ h - p \in {2, 3} /\ q > h) THEN 0
       ELSE IF w = "aprendizajes"
            THEN IF w2 = "clave" /\ HeaderTail(text, r + 1) # 0
                 THEN HeaderTail(text, r + 1)
                 ELSE HeaderTail(text, q + 1)
       ELSE IF w = "key"
            THEN IF w2 \in {"learnings", "learning"}
                 THEN HeaderTail(text, r + 1) ELSE 0
       ELSE IF w \in {"learnings", "learning"} THEN HeaderTail(text, q + 1)
       ELSE 0

\* list(header_pattern.finditer(text)): the matches from position p on, in
\* document order, each with the position where it starts and where it ends.
RECURSIVE HeaderMatches(_, _)
HeaderMatches(text, p) ==
    IF p > Len(text) THEN <<>>
    ELSE LET e == HeaderMatchEnd(text, p)
         IN IF e # 0
            THEN <<[start |-> p, end |-> e]>> \o HeaderMatches(text, e)
            ELSE HeaderMatches(text, p + 1)

\* A slip of the section break: a header line of any level ends a section.
IsSectionBreak_AnyLevel(text, q) ==
    LET h == SkipChar(text, q + 1, "#")
    IN /\ q <= Len(text) /\ text[q] = "\n"
       /\ h - (q + 1) >= 1
       /\ h <= Len(text) /\ text[h] = " "

\* re.search(r"\n#{1,3} ", section_text) matching at position q: a newline,
\* one to three "#", a space.
IsSectionBreak(text, q) ==
    LET h == SkipChar(text, q + 1, "#")
    IN /\ q <= Len(text) /\ text[q] = "\n"
       /\ h - (q + 1) \in {1, 2, 3}
       /\ h <= Len(text) /\ text[h] = " "

\* The section of a header match: text[match.end():], cut off at the first
\* section break.
SectionText(text, match) ==
    LET rest == From(text, match.end)
        cuts == {q \in 1..Len(rest) : IsSectionBreak(rest, q)}
    IN IF cuts = {} THEN rest
       ELSE SubSeq(rest, 1, (CHOOSE q \in cuts : \A c \in cuts : q <= c) - 1)

(***************************************************************************)
(* extract_learnings: the list segmenter                                   *)
(***************************************************************************)

\* The list marker of the item patterns at position a, after the leading
\* whitespace: \d+[.)] for numbered items, [-*] for bullets.  The position
\* after the marker, or 0.
MarkerEnd(text, a, numbered) ==
    IF numbered
    THEN LET d == SkipDigits(text, a)
         IN IF d > a /\ d <= Len(text) /\ text[d] \in {".", ")"}
            THEN d + 1 ELSE 0
    ELSE IF a <= Len(text) /\ text[a] \in {"-", "*"} THEN a + 1 ELSE 0

\* The lookahead that ends an item, at position e:
\*   (?=\n\s*\d+[.)]|\n\n|\Z)   or   (?=\n\s*[-*]|\n\n|\Z)
ItemEnds(text, e, numbered) ==
    \/ e = Len(text) + 1
    \/ /\ e <= Len(text) /\ text[e] = "\n"
       /\ \/ (e + 1 <= Len(text) /\ text[e + 1] = "\n")
          \/ MarkerEnd(text, SkipSpace(text, e + 1), numbered) # 0

\* The first position from e on where the item's lookahead holds (.+? takes
\* as little as it can).
RECURSIVE ItemStop(_, _, _)
ItemStop(text, e, numbered) ==
    IF ItemEnds(text, e, numbered) THEN e ELSE ItemStop(text, e + 1, numbered)

\* An item pattern matched at position p:
\*   ^\s*\d+[.)]\s+(.+?)(?=...)    or    ^\s*[-*]\s+(.+?)(?=...)
\* [from, to]: the positions of the first token of the captured group and
\* of the match's end, or to = 0 when the pattern does not match at p.  The
\* \s+ after the marker is greedy; when it runs to the end of the text it
\* gives its last character back to the group.
ItemMatch(text, p, numbered) ==
    LET m == MarkerEnd(text, SkipSpace(text, p), numbered)
        c == SkipSpace(text, m)
        none == [from |-> 0, to |-> 0]
    IN IF ~AtLineStart(text, p) \/ m = 0 \/ c = m THEN none
       ELSE IF c <= Len(text)
            THEN [from |-> c, to |-> ItemStop(text, c + 1, numbered)]
       ELSE IF c - 1 > m
            THEN [from |-> c - 1, to |-> c]
       ELSE none

\* re.findall(item pattern, section_text, re.MULTILINE | re.DOTALL): the
\* captured groups of the successive matches from position p on.
RECURSIVE FindItems(_, _, _)
FindItems(text, p, numbered) ==
    IF p > Len(text) THEN <<>>
    ELSE LET m == ItemMatch(text, p, numbered)
         IN IF m.to # 0
            THEN <<SubSeq(text, m.from, m.to - 1)>>
                     \o FindItems(text, m.to, numbered)
            ELSE FindItems(text, p + 1, numbered)

(***************************************************************************)
(* extract_learnings: the validity filter and the scan over the sections   *)
(***************************************************************************)

\* A slip of the validity filter: the test for a leading "[" is left out.
IsValidLearning_NoBracket(cleaned) == StrLen(cleaned) >= MIN_LEARNING_LENGTH

\* len(cleaned) >= MIN_LEARNING_LENGTH and not cleaned.startswith("[")
IsValidLearning(cleaned) ==
    /\ StrLen(cleaned) >= MIN_LEARNING_LENGTH
    /\ ~(cleaned # <<>> /\ cleaned[1] = "[")

\* The loop over the raw items: clean each one, keep the valid ones.
RECURSIVE KeepValid(_)
KeepValid(items) ==
    IF items = <<>> THEN <<>>
    ELSE LET cleaned == _clean_markdown(Head(items))
         IN (IF IsValidLearning(cleaned) THEN <<cleaned>> ELSE <<>>)
                \o KeepValid(Tail(items))

\* A slip of the segmenter: the bullets are parsed whether or not numbered
\* items were found.
SectionLearnings_Mixed(section_text) ==
    KeepValid(FindItems(section_text, 1, TRUE))
        \o KeepValid(FindItems(section_text, 1, FALSE))

\* The learnings of one section: the valid numbered items, and only when
\* there are none the valid bullet items.
SectionLearnings(section_text) ==
    LET numbered == KeepValid(FindItems(section_text, 1, TRUE))
    IN IF numbered # <<>> THEN numbered
       ELSE KeepValid(FindItems(section_text, 1, FALSE))

\* A slip of the scan: only the section of the last header is looked at.
ScanSections_LastOnly(text, matches, k) ==
    IF k = 0 THEN <<>>
    ELSE SectionLearnings(SectionText(text, matches[k]))

\* for match in reversed(matches): the learnings of the first section, from
\* match k down to match 1, that has any; [] when none has.
RECURSIVE ScanSections(_, _, _)
ScanSections(text, matches, k) ==
    IF k = 0 THEN <<>>
    ELSE LET found == SectionLearnings(SectionText(text, matches[k]))
         IN IF found # <<>> THEN found
            ELSE ScanSections(text, matches, k - 1)

\* extract_learnings from the reconstructed text on.
LearningsOfText(text) ==
    IF IsBlank(text) THEN <<>>
    ELSE LET matches == HeaderMatches(text, 1)
         IN ScanSections(text, matches, Len(matches))

(***************************************************************************)
(* JSON values and the Python operations the script applies to them        *)
(***************************************************************************)

JNull == [t |-> "null"]
JBool(b) == [t |-> "bool", b |-> b]
JNum(n) == [t |-> "num", n |-> n]
JStr(s) == [t |-> "str", s |-> s]
JList(items) == [t |-> "list", items |-> items]
JObj(f) == [t |-> "obj", f |-> f]

\* A str of one word, such as a record's type.
Word(w) == JStr(<<w>>)

\* {} and [] and "", the defaults of dict.get in the script.
EmptyDict == JObj(<<>>)
EmptyList == JList(<<>>)
EmptyStr == JStr(<<>>)

\* isinstance(v, dict), isinstance(v, list), isinstance(v, str)
IsDict(v) == v.t = "obj"
IsList(v) == v.t = "list"
IsStr(v) == v.t = "str"

\* bool(v): the truth value of "if v:" and "if not v:".
Truthy(v) ==
    CASE v.t = "null" -> FALSE
      [] v.t = "bool" -> v.b
      [] v.t = "num" -> v.n # 0
      [] v.t = "str" -> v.s # <<>>
      [] v.t = "list" -> v.items # <<>>
      [] v.t = "obj" -> DOMAIN v.f # {}

\* d.get(key, default) of a dict d.
Get(d, key, default) == IF key \in DOMAIN d.f THEN d.f[key] ELSE default

\* One line of a JSONL file, as the loop over the file sees it: a line that
\* is empty once stripped, a line json.loads raises JSONDecodeError on, a
\* line json.loads raises another exception on (RecursionError on brackets
\* nested deeper than the interpreter's limit, ValueError on an integer of
\* more digits than the interpreter converts), or a line json.loads
\* returns the value v for.
BlankLine == [k |-> "blank"]
InvalidLine == [k |-> "invalid"]
RaisingLine == [k |-> "raises"]
JsonLine(v) == [k |-> "json", v |-> v]

\* What a block of statements did: the strings it appended, and whether it
\* ended by raising.
Done(parts) == [raised |-> FALSE, parts |-> parts]
Raised(parts) == [raised |-> TRUE, parts |-> parts]

\* Statement a, then statement b unless a raised.
Then(a, b) ==
    IF a.raised THEN a
    ELSE [raised |-> b.raised, parts |-> a.parts \o b.parts]

(***************************************************************************)
(* _extract_text_from_jsonl                                                *)
(***************************************************************************)

\* text.replace("\\n", "\n"): every backslash-n becomes a newline.
Unescape(s) == [i \in 1..Len(s) |-> IF s[i] = "\\n" THEN "\n" ELSE s[i]]

\* "\n".join(parts) of a list of token sequences.
RECURSIVE JoinLines(_)
JoinLines(parts) ==
    IF parts = <<>> THEN <<>>
    ELSE IF Len(parts) = 1 THEN parts[1]
    ELSE parts[1] \o <<"\n">> \o JoinLines(Tail(parts))

\* The loop over an assistant message's content: every truthy "text" of a
\* dict item of type "text" is appended as it is.
RECURSIVE AssistantItems(_, _)
AssistantItems(items, i) ==
    IF i > Len(items) THEN Done(<<>>)
    ELSE LET item == items[i]
             text == Get(item, "text", EmptyStr)
             here == IF IsDict(item) /\ Get(item, "type", JNull) = Word("text")
                        /\ Truthy(text)
                     THEN Done(<<text>>) ELSE Done(<<>>)
         IN Then(here, AssistantItems(items, i + 1))

\* The loop over the content list of one tool_result item: every truthy
\* "text" of a dict block of type "text" is unescaped and appended;
\* text.replace raises AttributeError when the text is not a str.
RECURSIVE ResultBlocks(_, _)
ResultBlocks(blocks, i) ==
    IF i > Len(blocks) THEN Done(<<>>)
    ELSE LET block == blocks[i]
             text == Get(block, "text", EmptyStr)
             here == IF IsDict(block) /\ Get(block, "type", JNull) = Word("text")
                        /\ Truthy(text)
                     THEN IF IsStr(text) THEN Done(<<JStr(Unescape(text.s))>>)
                          ELSE Raised(<<>>)
                     ELSE Done(<<>>)
         IN Then(here, ResultBlocks(blocks, i + 1))

\* The loop over a user message's content: the tool_result items whose
\* content is a list contribute their text blocks; a tool_result whose
\* content is a str (Bash, Read output) contributes nothing.
RECURSIVE UserItems(_, _)
UserItems(items, i) ==
    IF i > Len(items) THEN Done(<<>>)
    ELSE LET item == items[i]
             result_content == Get(item, "content", EmptyStr)
             here == IF IsDict(item)
                        /\ Get(item, "type", JNull) = Word("tool_result")
                        /\ IsList(result_content)
                     THEN ResultBlocks(result_content.items, 1)
                     ELSE Done(<<>>)
         IN Then(here, UserItems(items, i + 1))

\* entry.get("message", {}).get("content", []), handed to one of the loops
\* above when it is a list; the second .get raises AttributeError when
\* "message" is not a dict.
MessageContent(entry, asAssistant) ==
    LET message == Get(entry, "message", EmptyDict)
        content == Get(message, "content", EmptyList)
    IN IF ~IsDict(message) THEN Raised(<<>>)
       ELSE IF ~IsList(content) THEN Done(<<>>)
       ELSE IF asAssistant THEN AssistantItems(content.items, 1)
       ELSE UserItems(content.items, 1)

\* The body of the loop for one parsed line.  entry.get raises
\* AttributeError when the line's JSON value is not a dict.
EntryParts(entry) ==
    LET type == Get(entry, "type", JNull)
        content == Get(entry, "content", EmptyStr)
    IN IF ~IsDict(entry) THEN Raised(<<>>)
       ELSE IF type = Word("assistant") THEN MessageContent(entry, TRUE)
       ELSE IF type = Word("user") THEN MessageContent(entry, FALSE)
       ELSE IF type = Word("tool_result")
            THEN IF IsStr(content) /\ Truthy(content)
                 THEN Done(<<JStr(Unescape(content.s))>>)
                 ELSE Done(<<>>)
       ELSE Done(<<>>)

\* "for raw_line in fh" inside the try block: blank lines are skipped, and
\* so are the lines json.loads raises JSONDecodeError on, the one exception
\* of json.loads the loop catches; the first exception raised in the body,
\* by json.loads or after it, ends the loop (the except clause of the
\* function logs it), with the strings appended so far kept.
RECURSIVE ReadParts(_, _)
ReadParts(lines, i) ==
    IF i > Len(lines) THEN Done(<<>>)
    ELSE IF lines[i].k \in {"blank", "invalid"} THEN ReadParts(lines, i + 1)
    ELSE IF lines[i].k = "raises" THEN Raised(<<>>)
    ELSE Then(EntryParts(lines[i].v), ReadParts(lines, i + 1))

\* _extract_text_from_jsonl on a file that cannot be opened (readable =
\* FALSE: open raises, the except clause logs it) or that holds the given
\* lines.  The join is outside the try block: it raises TypeError when a
\* part is not a str.  [raised, text]
_extract_text_from_jsonl(readable, lines) ==
    LET parts == IF readable THEN ReadParts(lines, 1).parts ELSE <<>>
    IN IF \E i \in 1..Len(parts) : ~IsStr(parts[i])
       THEN [raised |-> TRUE, text |-> <<>>]
       ELSE [raised |-> FALSE,
             text |-> JoinLines([i \in 1..Len(parts) |-> parts[i].s])]

(***************************************************************************)
(* detect_agent_name                                                       *)
(***************************************************************************)

\* The sentinel returned when no subagent_type is found.
Unknown == Word("unknown")

\* Can "key in entry" be evaluated: it raises TypeError on a number and on
\* null.
CanContain(entry) == entry.t \in {"obj", "list", "str"}

\* "key in s" for a str s: key is a substring of s.
IsSubstring(key, s) ==
    LET k == CharsOf(key)
        c == Chars(s)
    IN \E i \in 0..(Len(c) - Len(k)) : SubSeq(c, i + 1, i + Len(k)) = k

\* "key in entry": a key of a dict, an element of a list, a substring of a
\* str.
Contains(entry, key) ==
    CASE entry.t = "obj" -> key \in DOMAIN entry.f
      [] entry.t = "list" ->
            \E i \in 1..Len(entry.items) :
                /\ IsStr(entry.items[i])
                /\ Chars(entry.items[i].s) = CharsOf(key)
      [] entry.t = "str" -> IsSubstring(key, entry.s)
      [] OTHER -> FALSE

\* Format 1, the loop over content: the truthy input.subagent_type of every
\* Task tool_use item; .get on an "input" that is not a dict raises.
RECURSIVE TaskItems(_, _)
TaskItems(items, i) ==
    IF i > Len(items) THEN Done(<<>>)
    ELSE LET item == items[i]
             input == Get(item, "input", EmptyDict)
             subagent_type == Get(input, "subagent_type", JNull)
             here == IF IsDict(item)
                        /\ Get(item, "type", JNull) = Word("tool_use")
                        /\ Get(item, "name", JNull) = Word("Task")
                     THEN IF ~IsDict(input) THEN Raised(<<>>)
                          ELSE IF Truthy(subagent_type)
                               THEN Done(<<subagent_type>>)
                          ELSE Done(<<>>)
                     ELSE Done(<<>>)
         IN Then(here, TaskItems(items, i + 1))

\* Format 1: content is entry["message"].get("content", []) when "message"
\* is in the entry, else entry.get("content", []) when "content" is.
\* Subscripting a list or a str with a key raises TypeError, .get on a
\* value that is not a dict raises AttributeError.
Format1(entry) ==
    IF ~CanContain(entry) THEN Raised(<<>>)
    ELSE IF Contains(entry, "message")
         THEN IF ~IsDict(entry) THEN Raised(<<>>)
              ELSE IF ~IsDict(entry.f["message"]) THEN Raised(<<>>)
              ELSE LET content == Get(entry.f["message"], "content", EmptyList)
                   IN IF IsList(content) THEN TaskItems(content.items, 1)
                      ELSE Done(<<>>)
    ELSE IF Contains(entry, "content")
         THEN IF ~IsDict(entry) THEN Raised(<<>>)
              ELSE LET content == Get(entry, "content", EmptyList)
                   IN IF IsList(content) THEN TaskItems(content.items, 1)
                      ELSE Done(<<>>)
    ELSE Done(<<>>)

\* Format 2: the truthy entry["tool_input"].get("subagent_type").
Format2(entry) ==
    IF ~CanContain(entry) THEN Raised(<<>>)
    ELSE IF ~Contains(entry, "tool_input") THEN Done(<<>>)
    ELSE IF ~IsDict(entry) THEN Raised(<<>>)
    ELSE IF ~IsDict(entry.f["tool_input"]) THEN Raised(<<>>)
    ELSE LET subagent_type == Get(entry.f["tool_input"], "subagent_type", JNull)
         IN IF Truthy(subagent_type) THEN Done(<<subagent_type>>)
            ELSE Done(<<>>)

\* The loop over the lines of the parent transcript, inside the try block:
\* both formats are applied to every parsed line, and the first exception
\* ends the loop with the matches found so far kept.
RECURSIVE FoundIn(_, _)
FoundIn(lines, i) ==
    IF i > Len(lines) THEN Done(<<>>)
    ELSE IF lines[i].k \in {"blank", "invalid"} THEN FoundIn(lines, i + 1)
    ELSE IF lines[i].k = "raises" THEN Raised(<<>>)
    ELSE Then(Then(Format1(lines[i].v), Format2(lines[i].v)),
              FoundIn(lines, i + 1))

\* detect_agent_name once the path is known to be a non-empty str: exists
\* and readable say whether the file is there and whether open succeeds.
DetectIn(exists, readable, lines) ==
    LET found == IF exists /\ readable THEN FoundIn(lines, 1).parts ELSE <<>>
    IN IF found # <<>> THEN found[Len(found)] ELSE Unknown

(***************************************************************************)
(* The functions as main() calls them, on the paths of the envelope        *)
(***************************************************************************)

\* A file of the file system: can it be opened, and its lines.
File(readable, lines) ==
    [stat |-> TRUE, dir |-> FALSE, readable |-> readable, lines |-> lines]

\* A directory: open() raises IsADirectoryError on it.
Directory == [stat |-> TRUE, dir |-> TRUE, readable |-> FALSE, lines |-> <<>>]

\* A path the file system cannot look up: stat raises an OSError that
\* Path.exists() does not take for "not there" (PermissionError on a
\* directory that cannot be searched).
StatFails == [stat |-> FALSE, dir |-> FALSE, readable |-> FALSE, lines |-> <<>>]

\* The characters of ASCII a path can hold (all but NUL; the backquote is
\* a token of its own) and the characters UTF-8 encodes in two bytes
\* (U+0080 to U+07FF), written as they are.
AsciiChars == {
    "", "", "", "", "", "", "", "", "\t", "\n", "", "\f", "\r", "", "",
    "", "", "", "", "", "", "", "", "", "", "", "", "", "", "", "",
    " ", "!", "\"", "#", "$", "%", "&", "'", "(", ")", "*", "+", ",", "-", ".", "/",
    "0", "1", "2", "3", "4", "5", "6", "7", "8", "9", ":", ";", "<", "=", ">", "?",
    "@", "A", "B", "C", "D", "E", "F", "G", "H", "I", "J", "K", "L", "M", "N", "O",
    "P", "Q", "R", "S", "T", "U", "V", "W", "X", "Y", "Z", "[", "\\", "]", "^", "_",
    "a", "b", "c", "d", "e", "f", "g", "h", "i", "j", "k", "l", "m", "n", "o", "p",
    "q", "r", "s", "t", "u", "v", "w", "x", "y", "z", "{", "|", "}", "~", "" }

TwoByteChars == {
    "", "", "", "", "", "", "", "", "", "", "", "", "", "", "", "",
    "", "", "", "", "", "", "", "", "", "", "", "", "", "", "", "",
    " ", "¡", "¢", "£", "¤", "¥", "¦", "§", "¨", "©", "ª", "«", "¬", "­", "®", "¯",
    "°", "±", "²", "³", "´", "µ", "¶", "·", "¸", "¹", "º", "»", "¼", "½", "¾", "¿",
    "À", "Á", "Â", "Ã", "Ä", "Å", "Æ", "Ç", "È", "É", "Ê", "Ë", "Ì", "Í", "Î", "Ï",
    "Ð", "Ñ", "Ò", "Ó", "Ô", "Õ", "Ö", "×", "Ø", "Ù", "Ú", "Û", "Ü", "Ý", "Þ", "ß",
    "à", "á", "â", "ã", "ä", "å", "æ", "ç", "è", "é", "ê", "ë", "ì", "í", "î", "ï",
    "ð", "ñ", "ò", "ó", "ô", "õ", "ö", "÷", "ø", "ù", "ú", "û", "ü", "ý", "þ", "ÿ",
    "ƀ", "Ɓ", "Ƃ", "ƃ", "Ƅ", "ƅ", "Ɔ", "Ƈ", "ƈ", "Ɖ", "Ɗ", "Ƌ", "ƌ", "ƍ", "Ǝ", "Ə",
    "Ɛ", "Ƒ", "ƒ", "Ɠ", "Ɣ", "ƕ", "Ɩ", "Ɨ", "Ƙ", "ƙ", "ƚ", "ƛ", "Ɯ", "Ɲ", "ƞ", "Ɵ",
    "Ơ", "ơ", "Ƣ", "ƣ", "Ƥ", "ƥ", "Ʀ", "Ƨ", "ƨ", "Ʃ", "ƪ", "ƫ", "Ƭ", "ƭ", "Ʈ", "Ư",
    "ư", "Ʊ", "Ʋ", "Ƴ", "ƴ", "Ƶ", "ƶ", "Ʒ", "Ƹ", "ƹ", "ƺ", "ƻ", "Ƽ", "ƽ", "ƾ", "ƿ",
    "ǀ", "ǁ", "ǂ", "ǃ", "Ǆ", "ǅ", "ǆ", "Ǉ", "ǈ", "ǉ", "Ǌ", "ǋ", "ǌ", "Ǎ", "ǎ", "Ǐ",
    "ǐ", "Ǒ", "ǒ", "Ǔ", "ǔ", "Ǖ", "ǖ", "Ǘ", "ǘ", "Ǚ", "ǚ", "Ǜ", "ǜ", "ǝ", "Ǟ", "ǟ",
    "Ǡ", "ǡ", "Ǣ", "ǣ", "Ǥ", "ǥ", "Ǧ", "ǧ", "Ǩ", "ǩ", "Ǫ", "ǫ", "Ǭ", "ǭ", "Ǯ", "ǯ",
    "ǰ", "Ǳ", "ǲ", "ǳ", "Ǵ", "ǵ", "Ƕ", "Ƿ", "Ǹ", "ǹ", "Ǻ", "ǻ", "Ǽ", "ǽ", "Ǿ", "ǿ",
    "ʀ", "ʁ", "ʂ", "ʃ", "ʄ", "ʅ", "ʆ", "ʇ", "ʈ", "ʉ", "ʊ", "ʋ", "ʌ", "ʍ", "ʎ", "ʏ",
    "ʐ", "ʑ", "ʒ", "ʓ", "ʔ", "ʕ", "ʖ", "ʗ", "ʘ", "ʙ", "ʚ", "ʛ", "ʜ", "ʝ", "ʞ", "ʟ",
    "ʠ", "ʡ", "ʢ", "ʣ", "ʤ", "ʥ", "ʦ", "ʧ", "ʨ", "ʩ", "ʪ", "ʫ", "ʬ", "ʭ", "ʮ", "ʯ",
    "ʰ", "ʱ", "ʲ", "ʳ", "ʴ", "ʵ", "ʶ", "ʷ", "ʸ", "ʹ", "ʺ", "ʻ", "ʼ", "ʽ", "ʾ", "ʿ",
    "ˀ", "ˁ", "˂", "˃", "˄", "˅", "ˆ", "ˇ", "ˈ", "ˉ", "ˊ", "ˋ", "ˌ", "ˍ", "ˎ", "ˏ",
    "ː", "ˑ", "˒", "˓", "˔", "˕", "˖", "˗", "˘", "˙", "˚", "˛", "˜", "˝", "˞", "˟",
    "ˠ", "ˡ", "ˢ", "ˣ", "ˤ", "˥", "˦", "˧", "˨", "˩", "˪", "˫", "ˬ", "˭", "ˮ", "˯",
    "˰", "˱", "˲", "˳", "˴", "˵", "˶", "˷", "˸", "˹", "˺", "˻", "˼", "˽", "˾", "˿",
    "΀", "΁", "΂", "΃", "΄", "΅", "Ά", "·", "Έ", "Ή", "Ί", "΋", "Ό", "΍", "Ύ", "Ώ",
    "ΐ", "Α", "Β", "Γ", "Δ", "Ε", "Ζ", "Η", "Θ", "Ι", "Κ", "Λ", "Μ", "Ν", "Ξ", "Ο",
    "Π", "Ρ", "΢", "Σ", "Τ", "Υ", "Φ", "Χ", "Ψ", "Ω", "Ϊ", "Ϋ", "ά", "έ", "ή", "ί",
    "ΰ", "α", "β", "γ", "δ", "ε", "ζ", "η", "θ", "ι", "κ", "λ", "μ", "ν", "ξ", "ο",
    "π", "ρ", "ς", "σ", "τ", "υ", "φ", "χ", "ψ", "ω", "ϊ", "ϋ", "ό", "ύ", "ώ", "Ϗ",
    "ϐ", "ϑ", "ϒ", "ϓ", "ϔ", "ϕ", "ϖ", "ϗ", "Ϙ", "ϙ", "Ϛ", "ϛ", "Ϝ", "ϝ", "Ϟ", "ϟ",
    "Ϡ", "ϡ", "Ϣ", "ϣ", "Ϥ", "ϥ", "Ϧ", "ϧ", "Ϩ", "ϩ", "Ϫ", "ϫ", "Ϭ", "ϭ", "Ϯ", "ϯ",
    "ϰ", "ϱ", "ϲ", "ϳ", "ϴ", "ϵ", "϶", "Ϸ", "ϸ", "Ϲ", "Ϻ", "ϻ", "ϼ", "Ͻ", "Ͼ", "Ͽ",
    "Ҁ", "ҁ", "҂", "҃", "҄", "҅", "҆", "҇", "҈", "҉", "Ҋ", "ҋ", "Ҍ", "ҍ", "Ҏ", "ҏ",
    "Ґ", "ґ", "Ғ", "ғ", "Ҕ", "ҕ", "Җ", "җ", "Ҙ", "ҙ", "Қ", "қ", "Ҝ", "ҝ", "Ҟ", "ҟ",
    "Ҡ", "ҡ", "Ң", "ң", "Ҥ", "ҥ", "Ҧ", "ҧ", "Ҩ", "ҩ", "Ҫ", "ҫ", "Ҭ", "ҭ", "Ү", "ү",
    "Ұ", "ұ", "Ҳ", "ҳ", "Ҵ", "ҵ", "Ҷ", "ҷ", "Ҹ", "ҹ", "Һ", "һ", "Ҽ", "ҽ", "Ҿ", "ҿ",
    "Ӏ", "Ӂ", "ӂ", "Ӄ", "ӄ", "Ӆ", "ӆ", "Ӈ", "ӈ", "Ӊ", "ӊ", "Ӌ", "ӌ", "Ӎ", "ӎ", "ӏ",
    "Ӑ", "ӑ", "Ӓ", "ӓ", "Ӕ", "ӕ", "Ӗ", "ӗ", "Ә", "ә", "Ӛ", "ӛ", "Ӝ", "ӝ", "Ӟ", "ӟ",
    "Ӡ", "ӡ", "Ӣ", "ӣ", "Ӥ", "ӥ", "Ӧ", "ӧ", "Ө", "ө", "Ӫ", "ӫ", "Ӭ", "ӭ", "Ӯ", "ӯ",
    "Ӱ", "ӱ", "Ӳ", "ӳ", "Ӵ", "ӵ", "Ӷ", "ӷ", "Ӹ", "ӹ", "Ӻ", "ӻ", "Ӽ", "ӽ", "Ӿ", "ӿ",
    "ր", "ց", "ւ", "փ", "ք", "օ", "ֆ", "և", "ֈ", "։", "֊", "֋", "֌", "֍", "֎", "֏",
    "֐", "֑", "֒", "֓", "֔", "֕", "֖", "֗", "֘", "֙", "֚", "֛", "֜", "֝", "֞", "֟",
    "֠", "֡", "֢", "֣", "֤", "֥", "֦", "֧", "֨", "֩", "֪", "֫", "֬", "֭", "֮", "֯",
    "ְ", "ֱ", "ֲ", "ֳ", "ִ", "ֵ", "ֶ", "ַ", "ָ", "ֹ", "ֺ", "ֻ", "ּ", "ֽ", "־", "ֿ",
    "׀", "ׁ", "ׂ", "׃", "ׄ", "ׅ", "׆", "ׇ", "׈", "׉", "׊", "׋", "׌", "׍", "׎", "׏",
    "א", "ב", "ג", "ד", "ה", "ו", "ז", "ח", "ט", "י", "ך", "כ", "ל", "ם", "מ", "ן",
    "נ", "ס", "ע", "ף", "פ", "ץ", "צ", "ק", "ר", "ש", "ת", "׫", "׬", "׭", "׮", "ׯ",
    "װ", "ױ", "ײ", "׳", "״", "׵", "׶", "׷", "׸", "׹", "׺", "׻", "׼", "׽", "׾", "׿",
    "ڀ", "ځ", "ڂ", "ڃ", "ڄ", "څ", "چ", "ڇ", "ڈ", "ډ", "ڊ", "ڋ", "ڌ", "ڍ", "ڎ", "ڏ",
    "ڐ", "ڑ", "ڒ", "ړ", "ڔ", "ڕ", "ږ", "ڗ", "ژ", "ڙ", "ښ", "ڛ", "ڜ", "ڝ", "ڞ", "ڟ",
    "ڠ", "ڡ", "ڢ", "ڣ", "ڤ", "ڥ", "ڦ", "ڧ", "ڨ", "ک", "ڪ", "ګ", "ڬ", "ڭ", "ڮ", "گ",
    "ڰ", "ڱ", "ڲ", "ڳ", "ڴ", "ڵ", "ڶ", "ڷ", "ڸ", "ڹ", "ں", "ڻ", "ڼ", "ڽ", "ھ", "ڿ",
    "ۀ", "ہ", "ۂ", "ۃ", "ۄ", "ۅ", "ۆ", "ۇ", "ۈ", "ۉ", "ۊ", "ۋ", "ی", "ۍ", "ێ", "ۏ",
    "ې", "ۑ", "ے", "ۓ", "۔", "ە", "ۖ", "ۗ", "ۘ", "ۙ", "ۚ", "ۛ", "ۜ", "۝", "۞", "۟",
    "۠", "ۡ", "ۢ", "ۣ", "ۤ", "ۥ", "ۦ", "ۧ", "ۨ", "۩", "۪", "۫", "۬", "ۭ", "ۮ", "ۯ",
    "۰", "۱", "۲", "۳", "۴", "۵", "۶", "۷", "۸", "۹", "ۺ", "ۻ", "ۼ", "۽", "۾", "ۿ",
    "ހ", "ށ", "ނ", "ރ", "ބ", "ޅ", "ކ", "އ", "ވ", "މ", "ފ", "ދ", "ތ", "ލ", "ގ", "ޏ",
    "ސ", "ޑ", "ޒ", "ޓ", "ޔ", "ޕ", "ޖ", "ޗ", "ޘ", "ޙ", "ޚ", "ޛ", "ޜ", "ޝ", "ޞ", "ޟ",
    "ޠ", "ޡ", "ޢ", "ޣ", "ޤ", "ޥ", "ަ", "ާ", "ި", "ީ", "ު", "ޫ", "ެ", "ޭ", "ޮ", "ޯ",
    "ް", "ޱ", "޲", "޳", "޴", "޵", "޶", "޷", "޸", "޹", "޺", "޻", "޼", "޽", "޾", "޿",
    "߀", "߁", "߂", "߃", "߄", "߅", "߆", "߇", "߈", "߉", "ߊ", "ߋ", "ߌ", "ߍ", "ߎ", "ߏ",
    "ߐ", "ߑ", "ߒ", "ߓ", "ߔ", "ߕ", "ߖ", "ߗ", "ߘ", "ߙ", "ߚ", "ߛ", "ߜ", "ߝ", "ߞ", "ߟ",
    "ߠ", "ߡ", "ߢ", "ߣ", "ߤ", "ߥ", "ߦ", "ߧ", "ߨ", "ߩ", "ߪ", "߫", "߬", "߭", "߮", "߯",
    "߰", "߱", "߲", "߳", "ߴ", "ߵ", "߶", "߷", "߸", "߹", "ߺ", "߻", "߼", "߽", "߾", "߿" }

\* Number of bytes of a token and of a str, encoded in UTF-8 as os.stat
\* hands a path to the file system: one for a character of ASCII, two up to
\* U+07FF, three for the others.
TokBytes(w) ==
    IF w = Backquote THEN 1
    ELSE LET n == 1..Len(w)
         IN Len(w)
            + Cardinality({i \in n : SubSeq(w, i, i) \in TwoByteChars})
            + 2 * Cardinality({i \in n : /\ SubSeq(w, i, i) \notin AsciiChars
                                          /\ SubSeq(w, i, i) \notin TwoByteChars})

\* (The sums and the lists over a path are taken by halves, so that a
\* path of thousands of tokens is within reach.)
RECURSIVE BytesIn(_, _, _)
BytesIn(s, lo, hi) ==
    IF lo > hi THEN 0
    ELSE IF lo = hi THEN TokBytes(s[lo])
    ELSE LET mid == (lo + hi) \div 2
         IN BytesIn(s, lo, mid) + BytesIn(s, mid + 1, hi)

StrBytes(s) == BytesIn(s, 1, Len(s))

\* The limits of the file system on a name and on a path, in bytes (the
\* path with the NUL that ends it).
NAME_MAX == 255
PATH_MAX == 4096

\* A path starts at the root; it starts with exactly two slashes, which
\* Path() keeps.
IsAbsolute(path) == path # <<>> /\ path[1] = "/"
TwoSlashes(path) ==
    /\ Len(path) >= 2 /\ path[1] = "/" /\ path[2] = "/"
    /\ (Len(path) = 2 \/ path[3] # "/")

RECURSIVE NamesBytes(_, _, _)
NamesBytes(names, lo, hi) ==
    IF lo > hi THEN 0
    ELSE IF lo = hi THEN StrBytes(names[lo])
    ELSE LET mid == (lo + hi) \div 2
         IN NamesBytes(names, lo, mid) + NamesBytes(names, mid + 1, hi)

\* The name of a path that starts at position lo, if one starts there:
\* the run of tokens up to the next slash.  Path() leaves out the empty
\* names and the ".".
NameAt(path, lo) ==
    LET name == SubSeq(path, lo, SkipNot(path, lo, "/") - 1)
    IN IF path[lo] # "/" /\ (lo = 1 \/ path[lo - 1] = "/") /\ name # <<".">>
       THEN <<name>> ELSE <<>>

\* The names of a path as Path() keeps them, those that start between lo
\* and hi.
RECURSIVE NamesIn(_, _, _)
NamesIn(path, lo, hi) ==
    IF lo > hi THEN <<>>
    ELSE IF lo = hi THEN NameAt(path, lo)
    ELSE LET mid == (lo + hi) \div 2
         IN NamesIn(path, lo, mid) \o NamesIn(path, mid + 1, hi)

Names(path) == NamesIn(path, 1, Len(path))

\* Number of bytes of str(Path(path)), the path os.stat hands over: the
\* names, a slash between two of them, and the slashes of the root.
PathBytes(path) ==
    LET names == Names(path)
        lead == IF TwoSlashes(path) THEN 2 ELSE IF IsAbsolute(path) THEN 1 ELSE 0
    IN IF names = <<>> THEN (IF lead = 0 THEN 1 ELSE lead)
       ELSE lead + NamesBytes(names, 1, Len(names)) + Len(names) - 1

\* The paths of fs that name what path names.
SamePaths(fs, path) ==
    {k \in DOMAIN fs : /\ IsAbsolute(k) = IsAbsolute(path)
                       /\ Names(k) = Names(path)}

\* The names lead to a directory that is there: the root or the working
\* directory, a path of fs that is a directory, or a directory above a
\* path of fs.
IsDirectory(fs, absolute, names) ==
    \/ names = <<>>
    \/ \E k \in DOMAIN fs :
          LET kn == Names(k)
          IN /\ IsAbsolute(k) = absolute
             /\ Len(names) <= Len(kn)
             /\ SubSeq(kn, 1, Len(names)) = names
             /\ (Len(names) < Len(kn) \/ fs[k].dir)

\* stat of the path fails with ENAMETOOLONG: the whole path does not fit
\* in PATH_MAX, or the lookup gets as far as a name longer than NAME_MAX,
\* the names before the first such name leading to a directory that is
\* there (when they do not, stat fails with ENOENT or ENOTDIR first).
NameTooLong(fs, path) ==
    \/ PathBytes(path) >= PATH_MAX
    \/ LET names == Names(path)
           long == {i \in 1..Len(names) : StrBytes(names[i]) > NAME_MAX}
       IN /\ long # {}
          /\ IsDirectory(fs, IsAbsolute(path),
                         SubSeq(names, 1,
                                (CHOOSE i \in long : \A j \in long : i <= j) - 1))

\* What the file system holds at the path: the file or directory fs has
\* for it, or a directory above a path of fs.
Entry(fs, path) ==
    LET same == SamePaths(fs, path)
    IN IF same # {} THEN fs[CHOOSE k \in same : TRUE] ELSE Directory

\* Path(p).exists() for a str p.  The paths of fs are those stat answers
\* for, with the directories above them; any other path is not there
\* (False).  exists() returns False for the errors that mean "not there"
\* (ENOENT, ENOTDIR) and raises every other OSError of stat: ENAMETOOLONG,
\* PermissionError.
\* [raised, value]
Exists(fs, path) ==
    IF NameTooLong(fs, path.s) THEN [raised |-> TRUE, value |-> FALSE]
    ELSE IF SamePaths(fs, path.s) # {}
    THEN IF ~Entry(fs, path.s).stat THEN [raised |-> TRUE, value |-> FALSE]
         ELSE [raised |-> FALSE, value |-> TRUE]
    ELSE [raised |-> FALSE,
          value |-> IsDirectory(fs, IsAbsolute(path.s), Names(path.s))]

\* detect_agent_name(parent_transcript_path, logger).  A falsy path and a
\* missing file give "unknown"; Path() of a truthy value that is not a str
\* raises TypeError and path.exists() can raise OSError, both before the
\* try block: the function does not catch them.
\* [raised, name, opened]: opened is whether the file was opened.
detect_agent_name(fs, path) ==
    IF ~Truthy(path)
    THEN [raised |-> FALSE, name |-> Unknown, opened |-> FALSE]
    ELSE IF ~IsStr(path)
    THEN [raised |-> TRUE, name |-> Unknown, opened |-> FALSE]
    ELSE LET exists == Exists(fs, path)
         IN IF exists.raised
            THEN [raised |-> TRUE, name |-> Unknown, opened |-> FALSE]
            ELSE IF ~exists.value
            THEN [raised |-> FALSE, name |-> Unknown, opened |-> FALSE]
            ELSE [raised |-> FALSE,
                  name |-> DetectIn(TRUE, Entry(fs, path.s).readable,
                                    Entry(fs, path.s).lines),
                  opened |-> TRUE]

\* extract_learnings(agent_transcript_path, logger).  A falsy path and a
\* missing file give []; the TypeError of Path(), the OSError of
\* path.exists() and an exception of the reconstructor's join are not
\* caught here.  [raised, learnings, opened]
extract_learnings(fs, path) ==
    IF ~Truthy(path)
    THEN [raised |-> FALSE, learnings |-> <<>>, opened |-> FALSE]
    ELSE IF ~IsStr(path)
    THEN [raised |-> TRUE, learnings |-> <<>>, opened |-> FALSE]
    ELSE LET exists == Exists(fs, path)
             r == _extract_text_from_jsonl(Entry(fs, path.s).readable,
                                           Entry(fs, path.s).lines)
         IN IF exists.raised
            THEN [raised |-> TRUE, learnings |-> <<>>, opened |-> FALSE]
            ELSE IF ~exists.value
            THEN [raised |-> FALSE, learnings |-> <<>>, opened |-> FALSE]
            ELSE [raised |-> r.raised,
                  learnings |-> IF r.raised THEN <<>>
                                ELSE LearningsOfText(r.text),
                  opened |-> TRUE]

(***************************************************************************)
(* Engram connectivity                                                     *)
(***************************************************************************)

\* What an HTTP call can come to: an exception of requests (a timeout, a
\* connection error), or a response with its status (ok: resp.ok) and its
\* body (as resp.json() sees it: not JSON, or the JSON value v).
Timeout == [k |-> "timeout"]
ConnectionError == [k |-> "connection_error"]
Response(ok, body) == [k |-> "response", ok |-> ok, body |-> body]

\* check_engram_health: resp.ok, and False on any exception.
check_engram_health(outcome) ==
    IF outcome.k = "response" THEN outcome.ok ELSE FALSE

\* save_to_engram: data.get("id") of an ok response's JSON body, None (null)
\* otherwise; resp.json() raising on a body that is not JSON and .get
\* raising on a body that is not a dict are caught with the rest.
save_to_engram(outcome) ==
    IF outcome.k # "response" THEN JNull
    ELSE IF ~outcome.ok THEN JNull
    ELSE IF outcome.body.k # "json" THEN JNull
    ELSE IF ~IsDict(outcome.body.v) THEN JNull
    ELSE Get(outcome.body.v, "id", JNull)

\* The requests of the script, as the history records them.
HealthRequest == [method |-> "GET", url |-> "/health"]
Observation(content, proj, session, agent) ==
    [method |-> "POST", url |-> "/observations", content |-> content,
     type |-> "learning", project |-> proj, session_id |-> session,
     agent_name |-> agent, source |-> "subagent-stop-hook"]

(***************************************************************************)
(* main                                                                    *)
(***************************************************************************)

\* Path(cwd).name: the last segment of a path whose separators are "/"
\* tokens, with the empty segments (trailing and doubled separators) and
\* the "." segments dropped; "" when no segment is left.
RECURSIVE DropTrailingSlashes(_)
DropTrailingSlashes(s) ==
    IF s # <<>> /\ s[Len(s)] = "/"
    THEN DropTrailingSlashes(SubSeq(s, 1, Len(s) - 1)) ELSE s

RECURSIVE PathName(_)
PathName(s) ==
    LET t == DropTrailingSlashes(s)
        slashes == {i \in 1..Len(t) : t[i] = "/"}
        last == IF slashes = {} THEN 0
                ELSE CHOOSE i \in slashes : \A j \in slashes : j <= i
        name == SubSeq(t, last + 1, Len(t))
    IN IF name = <<".">> THEN PathName(SubSeq(t, 1, last)) ELSE name

\* logger = setup_logging(), before the try block of main: LOG_DIR.mkdir
\* or logging.FileHandler raising OSError is caught by nothing, and the
\* interpreter ends with status 1.
SetupLogging ==
    /\ pc = "setup"
    /\ IF log_dir = "ok"
       THEN pc' = "read" /\ exit_status' = exit_status
       ELSE pc' = "crashed" /\ exit_status' = 1
    /\ UNCHANGED <<log_dir, raw_input, health, files, data, agent_transcript,
                   parent_transcript, project, session_id, agent_name,
                   learnings, idx, saved_count, http, responses, reads,
                   events, unitVars>>

\* raw_input = sys.stdin.read(); data = json.loads(raw_input) if
\* raw_input.strip() else {}; {} on JSONDecodeError, the one exception of
\* json.loads caught here.  A read that raises (bytes that do not decode)
\* and a json.loads that raises another exception (RecursionError,
\* ValueError) go to the except clause of main, before the health check.
ReadStdin ==
    /\ pc = "read"
    /\ IF raw_input.k \in {"undecodable", "raises"}
       THEN pc' = "except" /\ data' = data
       ELSE /\ pc' = "fields"
            /\ data' = IF raw_input.k = "json" THEN raw_input.v ELSE EmptyDict
    /\ UNCHANGED <<log_dir, raw_input, health, files, agent_transcript,
                   parent_transcript, project, session_id, agent_name,
                   learnings, idx, saved_count, http, responses, reads,
                   events, exit_status, unitVars>>

\* The four data.get(...) and project = Path(cwd).name if cwd else
\* "unknown", in their order.  data.get raises AttributeError when data is
\* not a dict, before anything is assigned; Path(cwd) raises TypeError when
\* cwd is truthy and not a str, after the three fields before it are
\* assigned.
GetFields ==
    /\ pc = "fields"
    /\ IF ~IsDict(data)
       THEN /\ pc' = "except"
            /\ UNCHANGED <<session_id, agent_transcript, parent_transcript,
                           project>>
       ELSE LET cwd == Get(data, "cwd", EmptyStr)
            IN /\ session_id' = Get(data, "session_id", EmptyStr)
               /\ agent_transcript' = Get(data, "agent_transcript_path", EmptyStr)
               /\ parent_transcript' = Get(data, "transcript_path", EmptyStr)
               /\ IF Truthy(cwd) /\ ~IsStr(cwd)
                  THEN pc' = "except" /\ project' = project
                  ELSE /\ pc' = "health"
                       /\ project' = IF Truthy(cwd) THEN JStr(PathName(cwd.s))
                                     ELSE Unknown
    /\ UNCHANGED <<log_dir, raw_input, health, files, data, agent_name,
                   learnings, idx, saved_count, http, responses, reads,
                   events, exit_status, unitVars>>

\* A slip of step 1: the failed health check is logged and the run goes on.
HealthCheck_NoShortCircuit ==
    /\ pc = "health"
    /\ http' = Append(http, HealthRequest)
    /\ pc' = "transcript"
    /\ events' = IF check_engram_health(health)
                 THEN Append(events, "health_ok") ELSE events
    /\ UNCHANGED <<log_dir, raw_input, health, files, data, agent_transcript,
                   parent_transcript, project, session_id, agent_name,
                   learnings, idx, saved_count, responses, reads,
                   exit_status, unitVars>>

\* 1. Verify Engram is running: sys.exit(0) when it is not.
HealthCheck ==
    /\ pc = "health"
    /\ http' = Append(http, HealthRequest)
    /\ IF check_engram_health(health)
       THEN pc' = "transcript" /\ events' = Append(events, "health_ok")
       ELSE pc' = "exit" /\ events' = events
    /\ UNCHANGED <<log_dir, raw_input, health, files, data, agent_transcript,
                   parent_transcript, project, session_id, agent_name,
                   learnings, idx, saved_count, responses, reads,
                   exit_status, unitVars>>

\* 2. Verify we have a transcript to read: sys.exit(0) when the path is
\* falsy or the file is missing.  Path() of a truthy value that is not a
\* str raises TypeError and exists() can raise OSError: both go to the
\* except clause of main.
CheckTranscript ==
    /\ pc = "transcript"
    /\ IF ~Truthy(agent_transcript)
       THEN pc' = "exit" /\ events' = events
       ELSE IF ~IsStr(agent_transcript)
       THEN pc' = "except" /\ events' = events
       ELSE LET exists == Exists(files, agent_transcript)
            IN IF exists.raised
               THEN pc' = "except" /\ events' = events
               ELSE IF ~exists.value
               THEN pc' = "exit" /\ events' = events
               ELSE pc' = "detect" /\ events' = Append(events, "transcript_ok")
    /\ UNCHANGED <<log_dir, raw_input, health, files, data, agent_transcript,
                   parent_transcript, project, session_id, agent_name,
                   learnings, idx, saved_count, http, responses, reads,
                   exit_status, unitVars>>

\* 3. Detect agent name from parent transcript.
DetectAgent ==
    /\ pc = "detect"
    /\ LET r == detect_agent_name(files, parent_transcript)
       IN /\ pc' = IF r.raised THEN "except" ELSE "extract"
          /\ agent_name' = IF r.raised THEN agent_name ELSE r.name
          /\ reads' = IF r.opened THEN Append(reads, parent_transcript.s)
                      ELSE reads
    /\ UNCHANGED <<log_dir, raw_input, health, files, data, agent_transcript,
                   parent_transcript, project, session_id, learnings, idx,
                   saved_count, http, responses, events, exit_status,
                   unitVars>>

\* 4. Extract learnings from agent transcript: sys.exit(0) when there are
\* none; otherwise saved_count = 0 and the for loop starts.
ExtractLearnings ==
    /\ pc = "extract"
    /\ LET r == extract_learnings(files, agent_transcript)
       IN /\ reads' = IF r.opened THEN Append(reads, agent_transcript.s)
                      ELSE reads
          /\ IF r.raised
             THEN pc' = "except" /\ learnings' = learnings /\ events' = events
             ELSE /\ learnings' = r.learnings
                  /\ IF r.learnings = <<>>
                     THEN pc' = "exit" /\ events' = events
                     ELSE pc' = "save" /\ events' = Append(events, "extracted")
    /\ saved_count' = 0
    /\ idx' = 0
    /\ UNCHANGED <<log_dir, raw_input, health, files, data, agent_transcript,
                   parent_transcript, project, session_id, agent_name, http,
                   responses, exit_status, unitVars>>

\* 5. One turn of "for learning in learnings": build the payload, POST it,
\* count it when the obs_id that comes back is truthy.
SaveLearning(outcome) ==
    /\ pc = "save"
    /\ idx < Len(learnings)
    /\ http' = Append(http, Observation(learnings[idx + 1], project,
                                        session_id, agent_name))
    /\ responses' = Append(responses, outcome)
    /\ saved_count' = IF Truthy(save_to_engram(outcome))
                      THEN saved_count + 1 ELSE saved_count
    /\ idx' = idx + 1
    /\ UNCHANGED <<pc, log_dir, raw_input, health, files, data,
                   agent_transcript, parent_transcript, project, session_id,
                   agent_name, learnings, reads, events, exit_status,
                   unitVars>>

\* The loop is over: "Passive capture complete" is logged and main falls
\* through to its last statement.
Complete ==
    /\ pc = "save"
    /\ idx = Len(learnings)
    /\ pc' = "exit"
    /\ UNCHANGED <<log_dir, raw_input, health, files, data, agent_transcript,
                   parent_transcript, project, session_id, agent_name,
                   learnings, idx, saved_count, http, responses, reads,
                   events, exit_status, unitVars>>

\* except Exception as exc: the warning is logged and main falls through
\* to its last statement.
CatchException ==
    /\ pc = "except"
    /\ pc' = "exit"
    /\ UNCHANGED <<log_dir, raw_input, health, files, data, agent_transcript,
                   parent_transcript, project, session_id, agent_name,
                   learnings, idx, saved_count, http, responses, reads,
                   events, exit_status, unitVars>>

\* sys.exit(0), inside the try block (SystemExit is no Exception, so the
\* except clause lets it through) or as the last statement of main.
Exit ==
    /\ pc = "exit"
    /\ pc' = "done"
    /\ exit_status' = 0
    /\ UNCHANGED <<log_dir, raw_input, health, files, data, agent_transcript,
                   parent_transcript, project, session_id, agent_name,
                   learnings, idx, saved_count, http, responses, reads,
                   events, unitVars>>

(***************************************************************************)
(* The inputs of a run                                                     *)
(***************************************************************************)

\* The most learning items an agent transcript of the runs holds.
MaxLearnings == 3

\* The bodies of the learning items of the agent transcripts, each of at
\* least MIN_LEARNING_LENGTH characters.
Sentences == <<
    <<"Always", " ", "validate", " ", "input", " ", "boundaries">>,
    <<"Cache", " ", "misses", " ", "should", " ", "log", " ", "at", " ", "debug">>,
    <<"Prefer", " ", "small", " ", "commits", " ", "over", " ", "large">>,
    <<"Retry", " ", "only", " ", "idempotent", " ", "requests">>,
    <<"Keep", " ", "handlers", " ", "free", " ", "of", " ", "blocking">>,
    <<"Measure", " ", "before", " ", "tuning", " ", "anything">> >>

DigitOf == <<"1", "2", "3", "4", "5", "6", "7", "8", "9">>

\* "## Key Learnings:" followed by a numbered list of the first n sentences.
RECURSIVE NumberedList(_)
NumberedList(n) ==
    IF n = 0 THEN <<>>
    ELSE NumberedList(n - 1) \o <<"\n", DigitOf[n], ".", " ">> \o Sentences[n]

ReportText(n) == <<"#", "#", " ", "Key", " ", "Learnings", ":">> \o NumberedList(n)

\* A line of a transcript: an assistant message with one text block.
AssistantLine(text) ==
    JsonLine(JObj([type |-> Word("assistant"),
                   message |-> JObj([content |->
                       JList(<<JObj([type |-> Word("text"), text |-> text])>>)])]))

\* A line of a parent transcript: a Task tool_use naming the subagent.
TaskLine(subagent_type) ==
    JsonLine(JObj([message |-> JObj([content |->
        JList(<<JObj([type |-> Word("tool_use"), name |-> Word("Task"),
                      input |-> JObj([subagent_type |-> subagent_type])])>>)])]))

\* A line of a parent transcript in the PreToolUse shape.
ToolInputLine(subagent_type) ==
    JsonLine(JObj([tool_input |-> JObj([subagent_type |-> subagent_type])]))

AgentPath == <<"/", "t", "/", "agent", ".", "jsonl">>
ParentPath == <<"/", "t", "/", "parent", ".", "jsonl">>
MissingPath == <<"/", "t", "/", "gone", ".", "jsonl">>
Cwd == <<"/", "work", "/", "proj">>

\* Paths whose name is one byte longer than the file system takes: in the
\* directory of the transcripts, and in a directory that is not there.
RECURSIVE Repeat(_, _)
Repeat(w, n) ==
    IF n = 0 THEN ""
    ELSE IF n = 1 THEN w
    ELSE Repeat(w, n \div 2) \o Repeat(w, n - n \div 2)
LongName == Repeat("a", NAME_MAX + 1)
LongPath == <<"/", "t", "/", LongName>>
LongGonePath == <<"/", "gone", "/", LongName>>

\* A list of three numbered items whose second starts with "[".
MixedReport ==
    <<"#", "#", " ", "Key", " ", "Learnings", ":">>
    \o <<"\n", "1", ".", " ">> \o Sentences[1]
    \o <<"\n", "2", ".", " ", "[", "todo", "]", " ", "fill", " ", "this", " ",
         "in", " ", "later">>
    \o <<"\n", "3", ".", " ">> \o Sentences[3]

\* A list of three bullets: one too short, one long enough only before its
\* Markdown is stripped, one valid.
BulletReport ==
    <<"#", "#", "#", " ", "Learnings">>
    \o <<"\n", "-", " ", "too", " ", "short">>
    \o <<"\n", "*", " ", "*", "*", "Use", "*", "*", " ", Backquote, "async",
         Backquote, " ", "*", "for", "*", " ", "I", "/", "O">>
    \o <<"\n", "-", " ">> \o Sentences[4]

\* The texts the agent transcripts report.
AgentTexts ==
    {ReportText(n) : n \in 0..MaxLearnings} \cup {MixedReport, BulletReport}

\* The file systems of the runs: the parent transcript names "reviewer" or
\* cannot be looked up; the agent transcript reports one of the texts, or
\* holds a text block whose text is a number (the join of the
\* reconstructor raises on it).
FileSystems ==
    {(AgentPath :> File(TRUE, <<AssistantLine(JStr(text))>>))
        @@ (ParentPath :> File(TRUE, <<TaskLine(Word("reviewer"))>>))
     : text \in AgentTexts}
    \cup {(AgentPath :> File(TRUE, <<AssistantLine(JNum(5))>>))
            @@ (ParentPath :> File(TRUE, <<TaskLine(Word("reviewer"))>>)),
          (AgentPath :> File(TRUE, <<AssistantLine(JStr(ReportText(1)))>>))
            @@ (ParentPath :> StatFails)}

\* The envelope of the hook, with its four fields.
Envelope(agent, parent, cwd) ==
    JObj([session_id |-> Word("s1"), agent_transcript_path |-> agent,
          transcript_path |-> parent, cwd |-> cwd])

\* What stdin can hold: nothing but whitespace, text that is not JSON,
\* text json.loads raises another exception on, bytes that do not decode,
\* JSON that is not an object, the empty object, and envelopes with usable
\* and unusable fields.
NotAnObject == {JsonLine(EmptyList), JsonLine(JNum(42)), JsonLine(JNull),
                JsonLine(Word("s"))}
StdinInputs ==
    {BlankLine, InvalidLine, RaisingLine, [k |-> "undecodable"],
     JsonLine(EmptyDict)}
    \cup NotAnObject
    \cup {JsonLine(Envelope(JStr(AgentPath), JStr(ParentPath), JStr(Cwd))),
          JsonLine(Envelope(JStr(AgentPath), JStr(MissingPath), EmptyStr)),
          JsonLine(Envelope(JStr(MissingPath), JStr(ParentPath), JStr(Cwd))),
          JsonLine(Envelope(JStr(LongPath), JStr(ParentPath), JStr(Cwd))),
          JsonLine(Envelope(JStr(AgentPath), JStr(LongGonePath), JStr(Cwd))),
          JsonLine(Envelope(JNum(5), JStr(ParentPath), JStr(Cwd))),
          JsonLine(Envelope(JStr(AgentPath), JNum(5), JStr(Cwd))),
          JsonLine(Envelope(JStr(AgentPath), JStr(ParentPath), JNum(5))),
          JsonLine(Envelope(JStr(AgentPath), JStr(ParentPath),
                            JStr(Cwd \o <<"/", ".">>)))}

\* What GET /health can come to.
HealthOutcomes ==
    {Response(TRUE, InvalidLine), Response(FALSE, InvalidLine), Timeout,
     ConnectionError}

\* What POST /observations can come to: an id, an id that is 0, an object
\* without an id, a body that is not JSON, a body that is not an object, an
\* error status, a timeout, a connection error.
PostOutcomes ==
    {Response(TRUE, JsonLine(JObj([id |-> JNum(7)]))),
     Response(TRUE, JsonLine(JObj([id |-> JNum(0)]))),
     Response(TRUE, JsonLine(EmptyDict)),
     Response(TRUE, InvalidLine),
     Response(TRUE, JsonLine(EmptyList)),
     Response(FALSE, InvalidLine),
     Timeout, ConnectionError}

\* The state of the log directory: usable, or such that LOG_DIR.mkdir or
\* the opening of LOG_FILE raises OSError.
LogDirStates == {"ok", "mkdir_fails", "open_fails"}

\* The variables of the pure functions, while main runs.
UnitIdle ==
    /\ u_pc = "idle" /\ u_lines = <<>> /\ u_path = "" /\ u_text = <<>>
    /\ u_out = <<>>

Init ==
    /\ pc = "setup"
    /\ log_dir \in LogDirStates
    /\ raw_input \in StdinInputs
    /\ health \in HealthOutcomes
    /\ files \in FileSystems
    /\ data = JNull
    /\ agent_transcript = JNull
    /\ parent_transcript = JNull
    /\ project = JNull
    /\ session_id = JNull
    /\ agent_name = JNull
    /\ learnings = <<>>
    /\ idx = 0
    /\ saved_count = 0
    /\ http = <<>>
    /\ responses = <<>>
    /\ reads = <<>>
    /\ events = <<>>
    /\ exit_status = -1
    /\ UnitIdle

Next ==
    \/ SetupLogging
    \/ ReadStdin
    \/ GetFields
    \/ HealthCheck
    \/ CheckTranscript
    \/ DetectAgent
    \/ ExtractLearnings
    \/ \E outcome \in PostOutcomes : SaveLearning(outcome)
    \/ Complete
    \/ CatchException
    \/ Exit

Spec == Init /\ [][Next]_vars

(***************************************************************************)
(* The pure functions on their own: inputs drawn from bounded sets         *)
(***************************************************************************)

\* The sequences over S of at most n elements.
SeqsUpTo(S, n) == UNION {[1..k -> S] : k \in 0..n}

\* The variables of main, while a pure function is exercised.
MainIdle ==
    /\ pc = "idle" /\ log_dir = "ok" /\ raw_input = BlankLine
    /\ health = Timeout /\ files = <<>> /\ data = JNull
    /\ agent_transcript = JNull /\ parent_transcript = JNull
    /\ project = JNull /\ session_id = JNull /\ agent_name = JNull
    /\ learnings = <<>> /\ idx = 0 /\ saved_count = 0 /\ http = <<>>
    /\ responses = <<>> /\ reads = <<>> /\ events = <<>> /\ exit_status = -1

\* The file system in which the one file at path is missing, cannot be
\* looked up, is unreadable or holds the lines, as u_path says.
UnitFiles(path, state, lines) ==
    IF state = "missing" THEN <<>>
    ELSE IF state = "stat_raises" THEN path :> StatFails
    ELSE path :> File(state # "unreadable", lines)

\* What u_out holds of the outcome r of a function: that it ended by
\* raising, or the value it returned.
RaisedOut == [raised |-> TRUE]
Returned(r, field) == IF r.raised THEN RaisedOut ELSE r[field]

\* ---- extract_learnings over reconstructed texts ----

\* The most lines a reconstructed text holds.
MaxTextLines == 4

\* The lines the texts are made of: recognised headers of level 2 and 3
\* (the second with a no-break space after its "#"), other headers of
\* level 1, 3 and 4, a valid numbered item, a numbered item that starts
\* with "[" (its number a digit that is not of ASCII, an ogham space mark
\* after its marker), a valid bullet, a bullet whose text is long enough
\* only before its Markdown is stripped (a no-break space after its marker,
\* a vertical tab between its words), and the empty line.
TextLines == {
    <<"#", "#", " ", "Key", " ", "Learnings", ":">>,
    <<"#", "#", "#", " ", "LeArNiNgS">>,
    <<"#", " ", "Notes">>,
    <<"#", "#", "#", " ", "Notes">>,
    <<"#", "#", "#", "#", " ", "Deep">>,
    <<"1", ".", " ">> \o Sentences[1],
    <<"۲", ")", " ", "[", "todo", "]", " ", "fill", " ", "this", " ", "in",
      " ", "later">>,
    <<"-", " ">> \o Sentences[2],
    <<"*", " ", "*", "*", "Use", "*", "*", " ", Backquote, "async", Backquote,
      "", "*", "for", "*", " ", "I", "/", "O">>,
    <<>> }

InitExtract ==
    /\ MainIdle
    /\ u_pc = "in"
    /\ u_path = "ok"
    /\ u_lines = <<>>
    /\ u_text \in {JoinLines(ls) : ls \in SeqsUpTo(TextLines, MaxTextLines)}
    /\ u_out = <<>>

\* extract_learnings on a transcript whose one assistant message holds the
\* text.
ApplyExtract ==
    /\ u_pc = "in"
    /\ u_pc' = "out"
    /\ u_out' = Returned(
                    extract_learnings(
                        UnitFiles(AgentPath, u_path,
                                  <<AssistantLine(JStr(u_text))>>),
                        JStr(AgentPath)),
                    "learnings")
    /\ UNCHANGED <<mainVars, u_lines, u_path, u_text>>

SpecExtract == InitExtract /\ [][ApplyExtract]_vars

\* ---- the two readers of JSONL files ----

\* The most lines a JSONL file holds.
MaxLogLines == 3

\* A user message with two tool_result items: one whose content is a str
\* and one whose content is a list with the text block "B\nC" (escaped).
UserLine ==
    JsonLine(JObj([type |-> Word("user"), message |-> JObj([content |-> JList(<<
        JObj([type |-> Word("tool_result"), content |-> Word("plain")]),
        JObj([type |-> Word("tool_result"), content |-> JList(<<
            JObj([type |-> Word("text"), text |-> JStr(<<"B", "\\n", "C">>)])>>)])
        >>)])]))

\* The lines of the agent transcripts: the three eligible record shapes, a
\* record that carries no text, a line that is not JSON, a line json.loads
\* raises another exception on, lines whose JSON is not an object, and an
\* assistant record whose message is a str.
TranscriptLines == {
    AssistantLine(Word("A")),
    UserLine,
    JsonLine(JObj([type |-> Word("tool_result"), content |-> Word("D")])),
    JsonLine(JObj([type |-> Word("system")])),
    InvalidLine,
    RaisingLine,
    BlankLine,
    JsonLine(JNum(42)),
    JsonLine(EmptyList),
    JsonLine(JObj([type |-> Word("assistant"), message |-> Word("x")])) }

InitText ==
    /\ MainIdle
    /\ u_pc = "in"
    /\ u_path \in {"ok", "unreadable"}
    /\ u_lines \in SeqsUpTo(TranscriptLines, MaxLogLines)
    /\ u_text = <<>>
    /\ u_out = <<>>

ApplyText ==
    /\ u_pc = "in"
    /\ u_pc' = "out"
    /\ u_out' = _extract_text_from_jsonl(u_path = "ok", u_lines)
    /\ UNCHANGED <<mainVars, u_lines, u_path, u_text>>

SpecText == InitText /\ [][ApplyText]_vars

\* The lines of the parent transcripts: the two shapes, a record with both,
\* a tool_use that is no Task, a record with neither shape, a line that is
\* not JSON, a line json.loads raises another exception on, lines whose
\* JSON is not an object (one of them a str that holds "message"), and a
\* tool_input whose subagent_type is true.
ParentLines == {
    TaskLine(Word("reviewer")),
    ToolInputLine(Word("planner")),
    JsonLine(JObj([message |-> JObj([content |-> JList(<<
                       JObj([type |-> Word("tool_use"), name |-> Word("Task"),
                             input |-> JObj([subagent_type |-> Word("tester")])])>>)]),
                   tool_input |-> JObj([subagent_type |-> Word("builder")])])),
    JsonLine(JObj([message |-> JObj([content |-> JList(<<
                       JObj([type |-> Word("tool_use"), name |-> Word("Bash"),
                             input |-> JObj([command |-> Word("ls")])])>>)])])),
    JsonLine(JObj([type |-> Word("system")])),
    InvalidLine,
    RaisingLine,
    JsonLine(JNum(42)),
    JsonLine(EmptyList),
    JsonLine(Word("xmessagex")),
    ToolInputLine(JBool(TRUE)) }

InitDetect ==
    /\ MainIdle
    /\ u_pc = "in"
    /\ u_path \in {"empty", "missing", "stat_raises", "unreadable", "ok"}
    /\ u_lines \in SeqsUpTo(ParentLines, MaxLogLines)
    /\ u_text = <<>>
    /\ u_out = <<>>

ApplyDetect ==
    /\ u_pc = "in"
    /\ u_pc' = "out"
    /\ u_out' = Returned(
                    detect_agent_name(
                        UnitFiles(ParentPath, u_path, u_lines),
                        IF u_path = "empty" THEN EmptyStr ELSE JStr(ParentPath)),
                    "name")
    /\ UNCHANGED <<mainVars, u_lines, u_path, u_text>>

SpecDetect == InitDetect /\ [][ApplyDetect]_vars

(***************************************************************************)
(* Properties of a run of main (checked under Spec)                        *)
(***************************************************************************)

\* The POST requests of the history, in order.
Posts == SelectSeq(http, LAMBDA r : r.method = "POST")

\* The run has ended, one way or the other.
Ended == pc \in {"done", "crashed"}

\* C1: every run ends with exit status 0, whatever stdin, the capture
\* service, the transcripts and the log directory are, and whatever
\* exception is raised, in the logging setup too: no run ends with another
\* status or with an uncaught exception.
C1_AlwaysExitsZero ==
    /\ pc # "crashed"
    /\ exit_status \in {-1, 0}
    /\ Ended => exit_status = 0

\* C2: a POST to /observations is attempted only if, earlier in the run and
\* in this order, the health check succeeded, the agent transcript path was
\* non-empty and existed, and the extraction returned at least one learning;
\* when the health check fails no POST is attempted, no transcript is read,
\* and the run still exits with status 0.
C2_PostOnlyAfterPreconditions ==
    /\ Posts # <<>> =>
          /\ http[1] = HealthRequest
          /\ check_engram_health(health)
          /\ Len(events) >= 3
          /\ SubSeq(events, 1, 3) = <<"health_ok", "transcript_ok", "extracted">>
          /\ Truthy(agent_transcript) /\ IsStr(agent_transcript)
          /\ Exists(files, agent_transcript) = [raised |-> FALSE, value |-> TRUE]
          /\ learnings # <<>>
    /\ (http # <<>> /\ ~check_engram_health(health)) =>
          /\ http = <<HealthRequest>>
          /\ reads = <<>>
          /\ events = <<>>
          /\ pc \in {"exit", "done"}
          /\ pc = "done" => exit_status = 0

\* A run that posted every learning it extracted and exited.
C2_Witness ==
    /\ pc = "done" /\ exit_status = 0
    /\ Len(Posts) = MaxLearnings
    /\ reads = <<ParentPath, AgentPath>>

\* The attempts whose response carried an id: a 2xx response whose body is a
\* JSON object with an "id".
ReturnedAnId(outcome) ==
    /\ outcome.k = "response" /\ outcome.ok
    /\ outcome.body.k = "json" /\ IsDict(outcome.body.v)
    /\ "id" \in DOMAIN outcome.body.v.f
    /\ outcome.body.v.f["id"] # JNull

\* C3: in a run whose extraction returns n >= 1 learnings, exactly n POSTs
\* are attempted, one per learning and in their order, whatever attempts
\* fail; and the final saved count is the number of attempts that returned
\* an id.
C3_OnePostPerLearning ==
    (pc \in {"exit", "done"} /\ learnings # <<>>) =>
        /\ Len(Posts) = Len(learnings)
        /\ \A i \in 1..Len(learnings) : Posts[i].content = learnings[i]
        /\ Len(responses) = Len(learnings)
        /\ saved_count >= 0 /\ saved_count <= Len(learnings)
        /\ saved_count =
             Cardinality({i \in 1..Len(responses) : ReturnedAnId(responses[i])})

\* C9: for every stdin content that is not a well-formed JSON object
\* (empty, whitespace, text that is not JSON, JSON that is not an object) the
\* run goes on to the health check with session_id, agent_transcript_path,
\* transcript_path empty and project "unknown", as it does for {}.
C9_MalformedStdinContinues ==
    (raw_input \in {BlankLine, InvalidLine} \cup NotAnObject
        /\ pc \in {"exit", "done"}) =>
        /\ http # <<>> /\ http[1] = HealthRequest
        /\ session_id = EmptyStr
        /\ agent_transcript = EmptyStr
        /\ parent_transcript = EmptyStr
        /\ project = Unknown

\* The sections of a text, one per recognised header, in document order.
SectionsOf(text) ==
    LET hs == HeaderMatches(text, 1)
    IN [j \in 1..Len(hs) |-> SectionText(text, hs[j])]

\* The valid numbered and the valid bulleted items of a section.
ValidNumbered(sec) == KeepValid(FindItems(sec, 1, TRUE))
ValidBulleted(sec) == KeepValid(FindItems(sec, 1, FALSE))

\* The valid items of a section: numbered, else bulleted.
ValidItemsOf(sec) ==
    LET numbered == ValidNumbered(sec)
    IN IF numbered # <<>> THEN numbered ELSE ValidBulleted(sec)

\* The index of the most recent of the sections that yield at least one
\* valid item, 0 when none does.
MostRecent(secs) ==
    LET yield == {j \in DOMAIN secs : ValidItemsOf(secs[j]) # <<>>}
    IN IF yield = {} THEN 0
       ELSE CHOOSE j \in yield : \A i \in yield : i <= j

\* The raw items of the list the result of a section comes from, cleaned.
UsedList(sec) ==
    LET raw == FindItems(sec, 1, ValidNumbered(sec) # <<>>)
    IN [i \in 1..Len(raw) |-> _clean_markdown(raw[i])]

\* Does a cleaned item pass the two tests of the filter.
Passes(item) ==
    /\ StrLen(item) >= MIN_LEARNING_LENGTH
    /\ (item = <<>> \/ Head(item) # "[")

\* The cleaned items of the list the learnings of the run come from: those
\* of the numbered or bulleted list of the most recent section of the agent
\* transcript that yields a valid item.
ReportedItems ==
    IF learnings = <<>> THEN <<>>
    ELSE LET file == Entry(files, agent_transcript.s)
             text == _extract_text_from_jsonl(file.readable, file.lines).text
             secs == SectionsOf(text)
             j == MostRecent(secs)
         IN IF j = 0 THEN <<>> ELSE UsedList(secs[j])

\* C8: every learning extract_learnings returns, and the content of every
\* observation POSTed, is at least MIN_LEARNING_LENGTH characters long once
\* cleaned and does not begin with "["; the learnings are the items of the
\* list that pass the two tests, in their order, the items that fail one
\* dropped one by one (a list of 3 items of which 1 fails yields the 2
\* others), and the observations carry them one by one in that order.
C8_ValidItemsOnlyInOrder ==
    /\ \A i \in 1..Len(learnings) : Passes(learnings[i])
    /\ \A k \in 1..Len(Posts) :
          /\ Passes(Posts[k].content)
          /\ k <= Len(learnings) /\ Posts[k].content = learnings[k]
    /\ learnings # <<>> => learnings = SelectSeq(ReportedItems, Passes)

\* A list of 3 items of which exactly 1 fails, on the "[" test: the 2
\* others are returned and POSTed.
C8_Witness ==
    /\ pc = "done"
    /\ LET items == ReportedItems
       IN /\ Len(items) = 3
          /\ Passes(items[1]) /\ Passes(items[3])
          /\ StrLen(items[2]) >= MIN_LEARNING_LENGTH
          /\ Head(items[2]) = "["
          /\ learnings = <<items[1], items[3]>>
          /\ Len(Posts) = 2
          /\ Posts[1].content = items[1] /\ Posts[2].content = items[3]

(***************************************************************************)
(* Properties of the readers of JSONL files                                *)
(***************************************************************************)

\* The matches the two rules find on a line, when the lines are looked at
\* one by one: those of a line that is a JSON object, nothing for any other.
LineMatches(line) ==
    IF line.k = "json" /\ IsDict(line.v)
    THEN Then(Format1(line.v), Format2(line.v)).parts
    ELSE <<>>

RECURSIVE AllMatches(_)
AllMatches(lines) ==
    IF lines = <<>> THEN <<>>
    ELSE LineMatches(Head(lines)) \o AllMatches(Tail(lines))

\* C5 (under SpecDetect): detect_agent_name returns the subagent_type of the
\* last match of either shape over all the lines of the parent log, lines
\* that are not JSON objects contributing nothing; it is "unknown" exactly
\* when no line matches, the path is empty or missing, or the file cannot
\* be read.
C5_LastMatchOfEitherShape ==
    u_pc = "out" =>
        LET all == AllMatches(u_lines)
        IN u_out = IF u_path = "ok" /\ all # <<>> THEN all[Len(all)]
                   ELSE Unknown

\* The text fragments of a line, when the lines are looked at one by one:
\* those of an eligible record, nothing for any other line.
LineFragments(line) ==
    IF line.k = "json" /\ IsDict(line.v)
    THEN LET parts == EntryParts(line.v).parts
         IN [i \in 1..Len(parts) |-> parts[i].s]
    ELSE <<>>

RECURSIVE AllFragments(_)
AllFragments(lines) ==
    IF lines = <<>> THEN <<>>
    ELSE LineFragments(Head(lines)) \o AllFragments(Tail(lines))

\* C6 (under SpecText): a line that does not parse as a JSON object is
\* skipped without affecting any other line, and the text returned is the
\* newline-join, in file order, of the fragments of all the eligible
\* records, those after a skipped line included.
C6_SkipsBadLinesKeepsTheRest ==
    (u_pc = "out" /\ u_path = "ok") =>
        /\ ~u_out.raised
        /\ u_out.text = JoinLines(AllFragments(u_lines))

(***************************************************************************)
(* Properties of extract_learnings (checked under SpecExtract)             *)
(***************************************************************************)

\* The recognised headers and the sections of the text extract_learnings
\* is applied to.
Headers == HeaderMatches(u_text, 1)
Sections == SectionsOf(u_text)

\* C4: the result is exactly the valid items of the section of the most
\* recent header whose section yields a valid item; older sections
\* contribute nothing, a later header whose section yields none is skipped,
\* and the result is empty only if no section yields a valid item.
C4_MostRecentNonEmptySection ==
    u_pc = "out" =>
        LET secs == Sections
            j == MostRecent(secs)
        IN IF j = 0 THEN u_out = <<>>
           ELSE u_out = ValidItemsOf(secs[j]) /\ u_out # <<>>

\* A text whose last header has a section without valid items, behind an
\* older header whose section has some.
C4_Witness ==
    /\ u_pc = "out"
    /\ LET secs == Sections
           j == MostRecent(secs)
       IN /\ Len(secs) >= 2
          /\ j = Len(secs) - 1
          /\ ValidItemsOf(secs[Len(secs)]) = <<>>
          /\ u_out = ValidItemsOf(secs[j])
          /\ u_out # <<>>

\* C7: within the section used, numbered and bulleted items are never
\* mixed: if a numbered item is valid the result is the valid numbered
\* items alone, in document order; if none is and there are valid bullets,
\* the result is the valid bullets.
C7_NumberedBeforeBulleted ==
    u_pc = "out" =>
        LET secs == Sections
            j == MostRecent(secs)
        IN j # 0 =>
             LET numbered == ValidNumbered(secs[j])
             IN /\ numbered # <<>> => u_out = numbered
                /\ numbered = <<>> => u_out = ValidBulleted(secs[j])

\* A section with a valid numbered item and a valid bullet: the result is
\* the numbered item alone.
C7_Witness ==
    /\ u_pc = "out"
    /\ LET secs == Sections
           j == MostRecent(secs)
       IN /\ j # 0
          /\ ValidNumbered(secs[j]) # <<>>
          /\ ValidBulleted(secs[j]) # <<>>
          /\ u_out = ValidNumbered(secs[j])

\* The level of the header line that starts at position p: the number of
\* its "#", when a space follows them; 0 when no header starts there.
HeaderLevel(text, p) ==
    LET h == SkipChar(text, p, "#")
    IN IF h > p /\ h <= Len(text) /\ text[h] = " " THEN h - p ELSE 0

\* The level of a recognised header: the number of its "#".
TriggerLevel(text, match) == SkipChar(text, match.start, "#") - match.start

\* The place after the line of a recognised header: the newline that ends
\* the line, the first of those the match runs over with nothing but
\* whitespace up to its end; the end of the match when there is none.
AfterHeaderLine(text, match) ==
    LET nl == {i \in match.start..match.end :
                  /\ i <= Len(text) /\ text[i] = "\n"
                  /\ \A k \in i..(match.end - 1) : IsSpace(text[k])}
    IN IF nl = {} THEN match.end
       ELSE CHOOSE i \in nl : \A k \in nl : i <= k

\* The body of a section that starts at position from and is ended by the
\* first later line that is a header of a level in levels.
BodyUpTo(text, from, levels) ==
    LET ends == {q \in from..Len(text) :
                    text[q] = "\n" /\ HeaderLevel(text, q + 1) \in levels}
    IN IF ends = {} THEN From(text, from)
       ELSE SubSeq(text, from, (CHOOSE q \in ends : \A e \in ends : q <= e) - 1)

\* The section the code cuts for a header is the body that starts after the
\* header line and is ended by the headers of the levels, the blank lines
\* that follow the header line apart (the match of the header takes them
\* in, and no item is lost with them).
IsBodyUpTo(text, match, sec, levels) ==
    LET from == AfterHeaderLine(text, match)
    IN /\ from <= match.end
       /\ IsBlank(SubSeq(text, from, match.end - 1))
       /\ SubSeq(text, from, match.end - 1) \o sec = BodyUpTo(text, from, levels)

\* C10 as stated: the body of a section starts after the recognised header
\* line and ends at the next header of level less than or equal to the
\* level of the header that opened it, so that a level-3 header does not
\* end a section opened by a level-2 header.
C10_EndsAtHeaderOfSameOrHigherLevel ==
    u_pc = "out" =>
        LET hs == Headers
            secs == Sections
        IN \A j \in 1..Len(hs) :
              IsBodyUpTo(u_text, hs[j], secs[j], 1..TriggerLevel(u_text, hs[j]))

\* C10 as amended: the body of a section starts after the recognised header
\* line and ends at the next header of level 1, 2 or 3, whatever the level
\* of the header that opened it: a level-3 header ends a section opened by
\* a level-2 header, and a header of level 4 ends none.
C10_EndsAtAnyHeaderOfLevelOneToThree ==
    u_pc = "out" =>
        LET hs == Headers
            secs == Sections
        IN \A j \in 1..Len(hs) : IsBodyUpTo(u_text, hs[j], secs[j], {1, 2, 3})

\* A section opened by a level-2 header, with an item in it that is
\* returned, and ended by a level-3 header with another item behind it.
C10_Witness ==
    /\ u_pc = "out"
    /\ LET hs == Headers
           secs == Sections
           e == hs[1].end + Len(secs[1])
       IN /\ Len(hs) = 1
          /\ TriggerLevel(u_text, hs[1]) = 2
          /\ HeaderLevel(u_text, e + 1) = 3
          /\ ValidNumbered(From(u_text, e)) # <<>>
          /\ u_out = ValidItemsOf(secs[1])
          /\ u_out # <<>>

====
